---- MODULE Spec2Model ----
(***************************************************************************)
(* A model of the venn.ts layout core: the geometry kernel                 *)
(* (circleintersection), the numerical optimizers (bisect, nelderMead2d),  *)
(* the circle path encoding and the input filtering of the chart.          *)
(*                                                                         *)
(* Numbers.  A JavaScript number is modelled as a fixed-point integer      *)
(* counting units of 1/F (F = 2^10): the value 1.5 is 1536.  Sums,         *)
(* differences and comparisons are exact; products, quotients, square      *)
(* roots and the trigonometric functions are rounded to the unit, as the   *)
(* IEEE operations are rounded to the ulp.  Halving is exact as long as    *)
(* the operand is even, so a bisection that starts on whole numbers can    *)
(* halve ten times without rounding.                                       *)
(*                                                                         *)
(* A behaviour is one call of one function.  Init chooses the function     *)
(* and its arguments (op, arg), the actions run it (one action per         *)
(* function, or per loop step of an iterative one), loc holds its local    *)
(* variables and ret what the call returned or raised.                     *)
(***************************************************************************)
EXTENDS Integers, Sequences, FiniteSets, TLC

VARIABLES
    op,     \* the function being called
    pc,     \* "call": not yet run; "done": returned; "raised": threw; any other
            \* value: a position inside the function ("loop", "fill", ...)
    arg,    \* the arguments of the call (a record)
    loc,    \* the function's local variables while it runs (a record)
    ret     \* the value returned, and the side effects recorded by the call (a record)

vars == <<op, pc, arg, loc, ret>>

----------------------------------------------------------------------------
(* Fixed-point arithmetic *)

\* the number of units in 1
F == 2 ^ 10

\* Op applied to the value of v, computed once
Let(v, Op(_)) == CHOOSE r \in {Op(x) : x \in {v}} : TRUE

Abs(a) == IF a < 0 THEN -a ELSE a
Min(a, b) == IF a < b THEN a ELSE b
Max(a, b) == IF a > b THEN a ELSE b

\* a / b rounded to the nearest unit (b # 0)
RDiv(a, b) ==
    LET q == (2 * Abs(a) + Abs(b)) \div (2 * Abs(b))
    IN  IF (a < 0) # (b < 0) THEN -q ELSE q

\* x * y and x / y of two fixed-point numbers
Mul(x, y) == RDiv(x * y, F)
Div(x, y) == RDiv(x * F, y)

RECURSIVE ISqrtFrom(_, _, _)
ISqrtFrom(n, lo, hi) ==
    IF lo >= hi THEN lo
    ELSE LET mid == (lo + hi + 1) \div 2
         IN  IF mid * mid <= n THEN ISqrtFrom(n, mid, hi) ELSE ISqrtFrom(n, lo, mid - 1)

\* floor of the square root of a natural number below 2^31
ISqrt(n) == ISqrtFrom(n, 0, 46340)

\* Math.sqrt of a fixed-point number
Sqrt(x) == ISqrt(x * F)

\* Math.PI
PI == 3217

\* Math.acos of a fixed-point number in [-1, 1] (Abramowitz-Stegun 4.4.45
\* on [0, 1], reflected for negative arguments); an argument that rounding
\* pushed out of [-1, 1] is clamped
AcosPos(x) ==
    Mul(Sqrt(F - x), 1608 + Mul(x, -217 + Mul(x, 76 + Mul(x, -19))))

Acos(x) ==
    LET c == Max(-F, Min(F, x))
    IN  IF c >= 0 THEN AcosPos(c) ELSE PI - AcosPos(-c)

\* atan(z) for z in [0, 1]
AtanUnit(z) == Mul(z, RDiv(PI, 4)) - Mul(Mul(z, z - F), 251 + Mul(68, z))

\* Math.atan2(y, x), in (-PI, PI]
Atan2(y, x) ==
    IF x = 0 /\ y = 0 THEN 0
    ELSE LET ax == Abs(x)
             ay == Abs(y)
             base == IF ay <= ax THEN AtanUnit(Div(ay, ax))
                     ELSE RDiv(PI, 2) - AtanUnit(Div(ax, ay))
             half == IF x < 0 THEN PI - base ELSE base
         IN  IF y < 0 THEN -half ELSE half

\* sin(x) for x in [-PI/2, PI/2]: x (1 - x^2/6 (1 - x^2/20 (1 - x^2/42)))
SinSmall(x) ==
    LET x2 == Mul(x, x)
        t3 == F - RDiv(x2, 42)
        t2 == F - RDiv(Mul(x2, t3), 20)
        t1 == F - RDiv(Mul(x2, t2), 6)
    IN  Mul(x, t1)

\* the angle a brought into (-PI, PI] (a in [-3 PI, 3 PI])
WrapAngle(a) == IF a > PI THEN a - 2 * PI ELSE IF a <= -PI THEN a + 2 * PI ELSE a

\* Math.sin and Math.cos
Sin(a) ==
    LET w == WrapAngle(a)
    IN  IF w > RDiv(PI, 2) THEN SinSmall(PI - w)
        ELSE IF w < -RDiv(PI, 2) THEN SinSmall(-PI - w)
        ELSE SinSmall(w)

Cos(a) == Sin(a + RDiv(PI, 2))

----------------------------------------------------------------------------
(* Geometry kernel (circleintersection) *)

\* the tolerance of the containment tests, in units: large enough to absorb
\* the rounding of an intersection point, as SMALL absorbs the rounding of a
\* double
SMALL == 4

\* the build target: assigning to a const binding throws a TypeError when the
\* emitted code keeps const (ES2015 and later) and succeeds when const is
\* down-levelled to var (ES5)
Targets == {"ES2015", "ES5"}

\* euclidean distance between two points
distance(p1, p2) ==
    ISqrt((p1.x - p2.x) * (p1.x - p2.x) + (p1.y - p2.y) * (p1.y - p2.y))

\* Math.sqrt of the product of two fixed-point numbers; a radicand that
\* rounding pushed below 0 is taken as 0
SqrtOfProduct(sq) == ISqrt(Max(0, sq))

\* circular segment area
circleArea(r, width) ==
    Mul(Mul(r, r), Acos(F - Div(width, r)))
        - Mul(r - width, SqrtOfProduct(width * (2 * r - width)))

\* circleOverlapBranch with the first test written d > r1 + r2: externally
\* tangent circles reach the segment formula
circleOverlapStrict(r1, r2, d) ==
    IF d > r1 + r2 THEN [branch |-> "disjoint", area |-> 0]
    ELSE IF d <= Abs(r1 - r2)
    THEN LET r == Min(r1, r2)
         IN  [branch |-> "nested", area |-> Mul(PI, Mul(r, r))]
    ELSE LET w1 == r1 - RDiv(d * d - r2 * r2 + r1 * r1, 2 * d)
             w2 == r2 - RDiv(d * d - r1 * r1 + r2 * r2, 2 * d)
         IN  [branch |-> "segment", area |-> circleArea(r1, w1) + circleArea(r2, w2)]

\* the overlap area of two circles of radius r1 and r2 at distance d, with
\* the branch that computed it
circleOverlapBranch(r1, r2, d) ==
    IF d >= r1 + r2 THEN [branch |-> "disjoint", area |-> 0]
    ELSE IF d <= Abs(r1 - r2)
    THEN LET r == Min(r1, r2)
         IN  [branch |-> "nested", area |-> Mul(PI, Mul(r, r))]
    ELSE LET w1 == r1 - RDiv(d * d - r2 * r2 + r1 * r1, 2 * d)
             w2 == r2 - RDiv(d * d - r1 * r1 + r2 * r2, 2 * d)
         IN  [branch |-> "segment", area |-> circleArea(r1, w1) + circleArea(r2, w2)]

circleOverlap(r1, r2, d) == circleOverlapBranch(r1, r2, d).area

\* tooFar written d > r1 + r2: externally tangent circles are not too far
tooFarStrict(d, r1, r2) == d > r1 + r2

\* the two tests of circleCircleIntersection
tooFar(d, r1, r2) == d >= r1 + r2
selfContained(d, r1, r2) == d <= Abs(r1 - r2)

\* the intersecting points of two circles, if there are two
circleCircleIntersection(p1, p2) ==
    LET d == distance(p1, p2)
        r1 == p1.radius
        r2 == p2.radius
    IN  IF tooFar(d, r1, r2) \/ selfContained(d, r1, r2) THEN <<>>
        ELSE LET a == RDiv(r1 * r1 - r2 * r2 + d * d, 2 * d)
                 h == SqrtOfProduct(r1 * r1 - a * a)
                 x0 == p1.x + RDiv(a * (p2.x - p1.x), d)
                 y0 == p1.y + RDiv(a * (p2.y - p1.y), d)
                 rx == -RDiv((p2.y - p1.y) * h, d)
                 ry == -RDiv((p2.x - p1.x) * h, d)
             IN  << [x |-> x0 + rx, y |-> y0 - ry],
                    [x |-> x0 - rx, y |-> y0 + ry] >>

\* the center of a bunch of points
getCenter(points) ==
    LET RECURSIVE Sum(_, _)
        Sum(i, f) == IF i = 0 THEN 0
                     ELSE Sum(i - 1, f) + (IF f = "x" THEN points[i].x ELSE points[i].y)
        l == Len(points)
    IN  [x |-> RDiv(Sum(l, "x"), l), y |-> RDiv(Sum(l, "y"), l)]

getSubPolygonArea(p2, p1) == Mul(p2.x + p1.x, p1.y - p2.y)

\* whether a point is contained by all of a list of circles
containedInCircles(point, circles) ==
    \A i \in 1..Len(circles) : distance(point, circles[i]) <= circles[i].radius + SMALL

\* the points of circleCircleIntersection(circles[i], circles[j]) tagged with
\* their parents
TagPoints(pts, i, j) ==
    [k \in 1..Len(pts) |-> [x |-> pts[k].x, y |-> pts[k].y, parentIndex |-> <<i, j>>]]

\* all intersection points between a bunch of circles: the pairs i < j in
\* the order of the two loops (indices count from 1 here)
getIntersectionPoints(circles) ==
    LET n == Len(circles)
        RECURSIVE Inner(_, _)
        Inner(i, j) ==
            IF j > n THEN <<>>
            ELSE TagPoints(circleCircleIntersection(circles[i], circles[j]), i, j)
                    \o Inner(i, j + 1)
        RECURSIVE Outer(_)
        Outer(i) == IF i > n THEN <<>> ELSE Inner(i, i + 1) \o Outer(i + 1)
    IN  Outer(1)

Range(seq) == {seq[i] : i \in 1..Len(seq)}

\* the angle of a point around the center of the inner points
angleOf(p, center) == Atan2(p.x - center.x, p.y - center.y)

\* sort((a, b) => b.angle - a.angle): a stable sort by descending angle
RECURSIVE InsertByAngle(_, _, _)
InsertByAngle(sorted, p, center) ==
    IF sorted = <<>> THEN <<p>>
    ELSE IF angleOf(Head(sorted), center) >= angleOf(p, center)
    THEN <<Head(sorted)>> \o InsertByAngle(Tail(sorted), p, center)
    ELSE <<p>> \o sorted

RECURSIVE SortFrom(_, _, _)
SortFrom(points, k, center) ==
    IF k = 0 THEN <<>>
    ELSE InsertByAngle(SortFrom(points, k - 1, center), points[k], center)

sortedByAngle(points) == SortFrom(points, Len(points), getCenter(points))

\* an arc recorded with its two endpoints exchanged
arcOnExchanged(circles, idx, p1, p2) ==
    [circle |-> circles[idx], width |-> 0, p1 |-> p2, p2 |-> p1]

\* the arc of circles[idx] between p1 and p2: its width is the distance from
\* the middle of the chord to the point of the circle halfway between them
arcOn(circles, idx, p1, p2) ==
    LET circle == circles[idx]
        midPoint == [x |-> RDiv(p1.x + p2.x, 2), y |-> RDiv(p1.y + p2.y, 2)]
        halfway(a1, a2) ==
            LET angleDiff == IF a2 - a1 < 0 THEN a2 - a1 + 2 * PI ELSE a2 - a1
            IN  a2 - RDiv(angleDiff, 2)
        widthAt(a) ==
            distance(midPoint,
                     [x |-> circle.x + Mul(circle.radius, Sin(a)),
                      y |-> circle.y + Mul(circle.radius, Cos(a))])
    IN  Let(Atan2(p1.x - circle.x, p1.y - circle.y), LAMBDA a1 :
        Let(Atan2(p2.x - circle.x, p2.y - circle.y), LAMBDA a2 :
        Let(halfway(a1, a2), LAMBDA a :
        Let(widthAt(a), LAMBDA width :
            [circle |-> circle, width |-> Min(width, circle.radius * 2),
             p1 |-> p1, p2 |-> p2]))))

\* the loop over p1.parentIndex: the arc of smallest width among the circles
\* that are parents of both points.  arc is <<>> for null.  The assignment
\* arc = {...} writes the binding declared "const arc = null".
pickArc(circles, p1, p2, target) ==
    LET RECURSIVE Loop(_, _)
        Loop(j, arc) ==
            IF j > Len(p1.parentIndex) THEN [error |-> "none", arc |-> arc]
            ELSE IF p1.parentIndex[j] \in Range(p2.parentIndex)
            THEN Let(arcOn(circles, p1.parentIndex[j], p1, p2), LAMBDA cand :
                     IF arc = <<>> \/ arc[1].width > cand.width
                     THEN IF target = "ES2015"
                          THEN [error |-> "TypeError", arc |-> arc]
                          ELSE Loop(j + 1, <<cand>>)
                     ELSE Loop(j + 1, arc))
            ELSE Loop(j + 1, arc)
    IN  Loop(1, <<>>)

\* sortedPoints.forEach: walks the edges (p2, p1) around the polygon
walkEdges(circles, sortedPoints, target) ==
    LET after(st, p1, picked) ==
            LET poly == st.polygonArea + getSubPolygonArea(st.p2, p1)
            IN  IF picked.error # "none"
                THEN [st EXCEPT !.error = picked.error, !.polygonArea = poly]
                ELSE IF picked.arc # <<>>
                THEN [p2 |-> p1,
                      polygonArea |-> poly,
                      arcArea |-> st.arcArea
                          + circleArea(picked.arc[1].circle.radius,
                                       picked.arc[1].width),
                      arcs |-> Append(st.arcs, picked.arc[1]),
                      error |-> "none"]
                ELSE [st EXCEPT !.polygonArea = poly]
        RECURSIVE Step(_, _)
        Step(k, st) ==
            IF k > Len(sortedPoints) \/ st.error # "none" THEN st
            ELSE Let(pickArc(circles, sortedPoints[k], st.p2, target), LAMBDA picked :
                 Let(after(st, sortedPoints[k], picked), LAMBDA next :
                     Step(k + 1, next)))
    IN  Step(1, [p2 |-> sortedPoints[Len(sortedPoints)], polygonArea |-> 0,
                 arcArea |-> 0, arcs |-> <<>>, error |-> "none"])

\* circles.reduce((prev, curr) => prev.radius < curr.radius ? prev : curr)
smallestCircle(circles) ==
    LET RECURSIVE Reduce(_, _)
        Reduce(prev, i) ==
            IF i > Len(circles) THEN prev
            ELSE Reduce(IF prev.radius < circles[i].radius THEN prev ELSE circles[i], i + 1)
    IN  Reduce(circles[1], 2)

\* circles.every((c) => distance(c, smt) > Math.abs(smt.radius - c.radius))
smallestIsContained(circles, smt) ==
    \A i \in 1..Len(circles) :
        distance(circles[i], smt) > Abs(smt.radius - circles[i].radius)

\* the branch taken when fewer than two inner points exist
noInnerPoints(circles) ==
    LET smt == smallestCircle(circles)
        r == smt.radius
    IN  IF ~smallestIsContained(circles, smt)
        THEN [arcArea |-> 0, polygonArea |-> 0, arcs |-> <<>>, error |-> "none"]
        ELSE [arcArea |-> Mul(Mul(r, r), PI),
              polygonArea |-> 0,
              arcs |-> << [circle |-> smt,
                           p1 |-> [x |-> smt.x, y |-> smt.y + r],
                           p2 |-> [x |-> smt.x - SMALL, y |-> smt.y + r],
                           width |-> smt.radius * 2] >>,
              error |-> "none"]

\* intersectionArea(circles, stats): the value returned (or the error
\* raised) and the stats object after the call; wantStats is whether a stats
\* object was passed
intersectionArea(circles, wantStats, target) ==
    LET Inner(p) == containedInCircles(p, circles)
        partsOf(innerPoints) ==
            IF Len(innerPoints) > 1
            THEN walkEdges(circles, sortedByAngle(innerPoints), target)
            ELSE IF circles = <<>>
            THEN [arcArea |-> 0, polygonArea |-> 0, arcs |-> <<>>,
                  error |-> "TypeError"]
            ELSE noInnerPoints(circles)
    IN  Let(getIntersectionPoints(circles), LAMBDA intersectionPoints :
        Let(SelectSeq(intersectionPoints, Inner), LAMBDA innerPoints :
        Let(partsOf(innerPoints), LAMBDA parts :
        Let(RDiv(parts.polygonArea, 2), LAMBDA polygonArea :
            IF parts.error # "none"
            THEN [error |-> parts.error, area |-> 0, stats |-> <<>>]
            ELSE [error |-> "none",
                  area |-> parts.arcArea + polygonArea,
                  stats |-> IF wantStats
                            THEN << [area |-> parts.arcArea + polygonArea,
                                     arcArea |-> parts.arcArea,
                                     polygonArea |-> polygonArea,
                                     arcs |-> parts.arcs,
                                     innerPoints |-> innerPoints,
                                     intersectionPoints |-> intersectionPoints] >>
                            ELSE <<>>]))))

----------------------------------------------------------------------------
(* The calls *)

\* bounds of the arguments tried
MaxCircles == 3
MaxCoord == 3
MaxRadius == 2

NoValue == [error |-> "none"]

\* whole numbers as fixed-point numbers
Whole(n) == n * F

\* the circles tried: centers at whole numbers on the x axis, one center off
\* it, and one center a little beyond a whole number (by less than SMALL, so
\* that two circles can be apart by less than the tolerance); whole radii
\* (0 included)
Centers ==
    {<<Whole(x), 0>> : x \in 0..MaxCoord}
        \cup {<<Whole(1), Whole(1)>>}
        \cup {<<Whole(2) + SMALL \div 2, 0>>}

Circles ==
    {[x |-> c[1], y |-> c[2], radius |-> Whole(r)] :
        c \in Centers, r \in 0..MaxRadius}

\* the order of the centers: by x, then by y
CenterLeq(c1, c2) == c1.x < c2.x \/ (c1.x = c2.x /\ c1.y <= c2.y)

\* the circles of a layout: zero-size sets are removed before the layout, so
\* their radius is positive
LayoutCircles == {c \in Circles : c.radius > 0}

\* a list of circles and one more circle: the first circle is centered at
\* the origin and the circles are listed in the order of their centers
Extend(cs) ==
    {Append(cs, c) : c \in {c \in LayoutCircles :
                               IF cs = <<>> THEN c.x = 0 /\ c.y = 0
                               ELSE CenterLeq(cs[Len(cs)], c)}}

\* the lists of at most n circles tried
RECURSIVE CircleLists(_)
CircleLists(n) ==
    IF n = 0 THEN {<<>>}
    ELSE LET shorter == CircleLists(n - 1)
         IN  shorter \cup UNION {Extend(cs) : cs \in shorter}

\* a list with each of its circles listed twice (two sets of the same
\* elements are laid out as the same circle)
Twice(cs) == [i \in 1..(2 * Len(cs)) |-> cs[(i + 1) \div 2]]

InitIntersectionArea ==
    /\ op = "intersectionArea"
    /\ pc = "call"
    /\ arg \in [circles : CircleLists(MaxCircles)
                              \cup {Twice(cs) : cs \in CircleLists(MaxCircles - 1)},
                stats : BOOLEAN, target : Targets]
    /\ loc = NoValue
    /\ ret = NoValue

\* a call of intersectionArea(circles, stats)
IntersectionArea ==
    /\ op = "intersectionArea"
    /\ pc = "call"
    /\ \E r \in {intersectionArea(arg.circles, arg.stats, arg.target)} :
           /\ ret' = r
           /\ pc' = IF r.error = "none" THEN "done" ELSE "raised"
    /\ UNCHANGED <<op, arg, loc>>

MaxHalves == 5

\* halves as fixed-point numbers
Half(n) == n * (F \div 2)

InitCircleOverlap ==
    /\ op = "circleOverlap"
    /\ pc = "call"
    /\ arg \in [r1 : {Half(n) : n \in 0..MaxHalves},
                r2 : {Half(n) : n \in 0..MaxHalves},
                d : {Half(n) : n \in 0..(2 * MaxHalves)}]
    /\ loc = NoValue
    /\ ret = NoValue

\* a call of circleOverlap(r1, r2, d)
CircleOverlap ==
    /\ op = "circleOverlap"
    /\ pc = "call"
    /\ LET r == circleOverlapBranch(arg.r1, arg.r2, arg.d)
       IN  ret' = [error |-> "none", value |-> r.area, branch |-> r.branch]
    /\ pc' = "done"
    /\ UNCHANGED <<op, arg, loc>>

InitCircleCircleIntersection ==
    /\ op = "circleCircleIntersection"
    /\ pc = "call"
    /\ arg \in [p1 : Circles, p2 : Circles]
    /\ loc = NoValue
    /\ ret = NoValue

\* a call of circleCircleIntersection(p1, p2)
CircleCircleIntersection ==
    /\ op = "circleCircleIntersection"
    /\ pc = "call"
    /\ ret' = [error |-> "none", points |-> circleCircleIntersection(arg.p1, arg.p2)]
    /\ pc' = "done"
    /\ UNCHANGED <<op, arg, loc>>

InitGeometry ==
    InitIntersectionArea \/ InitCircleOverlap \/ InitCircleCircleIntersection

NextGeometry == IntersectionArea \/ CircleOverlap \/ CircleCircleIntersection

SpecGeometry == InitGeometry /\ [][NextGeometry]_vars

----------------------------------------------------------------------------
(* Claims about the geometry kernel *)

Returned(name) == op = name /\ pc = "done"
Finished(name) == op = name /\ pc \in {"done", "raised"}

\* the exact tests on the squared distance of two centers
DistSq(c1, c2) == (c1.x - c2.x) * (c1.x - c2.x) + (c1.y - c2.y) * (c1.y - c2.y)
Disjoint(c1, c2) == DistSq(c1, c2) > (c1.radius + c2.radius) * (c1.radius + c2.radius)
Inside(small, big) ==
    /\ small.radius <= big.radius
    /\ DistSq(small, big) <= (big.radius - small.radius) * (big.radius - small.radius)

innerPointsOf(circles) ==
    LET Inner(p) == containedInCircles(p, circles)
    IN  SelectSeq(getIntersectionPoints(circles), Inner)

FullCircleArc(arcs, c) ==
    Len(arcs) = 1 /\ arcs[1].circle = c /\ arcs[1].width = 2 * c.radius

\* C2: intersectionArea of a list of exactly one circle of radius r returns
\* PI r^2 and, when stats are requested, records that circle as a single
\* full-circle arc.
C2_SingleCircleArea ==
    (Finished("intersectionArea") /\ Len(arg.circles) = 1) =>
        /\ pc = "done"
        /\ ret.area = Mul(Mul(arg.circles[1].radius, arg.circles[1].radius), PI)
        /\ arg.stats => FullCircleArc(ret.stats[1].arcs, arg.circles[1])

\* C3: with fewer than 2 inner points and a smallest-radius circle that lies
\* inside every other circle, intersectionArea returns the area of the
\* smallest circle and records exactly one arc, of that circle, of width
\* 2 r_min.
C3_NestedArea ==
    (/\ Finished("intersectionArea")
     /\ Len(arg.circles) >= 2
     /\ Len(innerPointsOf(arg.circles)) < 2
     /\ \A i \in 1..Len(arg.circles) :
            Inside(smallestCircle(arg.circles), arg.circles[i])) =>
        LET smt == smallestCircle(arg.circles)
        IN  /\ pc = "done"
            /\ ret.area = Mul(Mul(smt.radius, smt.radius), PI)
            /\ arg.stats => FullCircleArc(ret.stats[1].arcs, smt)

HasDisjointPair(circles) ==
    \E i, j \in 1..Len(circles) : i < j /\ Disjoint(circles[i], circles[j])

\* C4: intersectionArea returns 0 and records no arcs whenever at least two
\* of the given circles are disjoint (center distance greater than the sum of
\* their radii).  Stated of the calls that return.
C4_DisjointArea ==
    (Returned("intersectionArea") /\ HasDisjointPair(arg.circles)) =>
        /\ ret.area = 0
        /\ arg.stats => ret.stats[1].arcs = <<>>

\* the arcs recorded by a call of intersectionArea that was given a stats
\* object and returned
recordedArcs ==
    IF Returned("intersectionArea") /\ ret.stats # <<>>
    THEN ret.stats[1].arcs ELSE <<>>

C5_OverlapCases ==
    Returned("circleOverlap") =>
        /\ arg.d >= arg.r1 + arg.r2 => ret.value = 0
        /\ arg.d <= Abs(arg.r1 - arg.r2) =>
                ret.value = Mul(PI, Mul(Min(arg.r1, arg.r2), Min(arg.r1, arg.r2)))
        /\ ret.branch = "segment" =>
                (Abs(arg.r1 - arg.r2) < arg.d /\ arg.d < arg.r1 + arg.r2)

\* C5 witness: a nested pair of positive radii, and a tangent pair
C5_Witness ==
    /\ Returned("circleOverlap")
    /\ arg.d > 0
    /\ arg.d <= Abs(arg.r1 - arg.r2)
    /\ Min(arg.r1, arg.r2) > 0
    /\ ret.value > 0

\* C6: circleCircleIntersection returns no points or exactly two, never one:
\* none if and only if d >= r1 + r2 or d <= |r1 - r2|, two otherwise.
C6_ZeroOrTwoPoints ==
    Returned("circleCircleIntersection") =>
        LET sum == arg.p1.radius + arg.p2.radius
            diff == arg.p1.radius - arg.p2.radius
            none == \/ DistSq(arg.p1, arg.p2) >= sum * sum
                    \/ DistSq(arg.p1, arg.p2) <= diff * diff
        IN  /\ Len(ret.points) \in {0, 2}
            /\ (ret.points = <<>>) <=> none

\* C6 witness: externally tangent circles of positive radius yield no points
C6_Witness ==
    /\ Returned("circleCircleIntersection")
    /\ arg.p1.radius > 0
    /\ arg.p2.radius > 0
    /\ DistSq(arg.p1, arg.p2) =
            (arg.p1.radius + arg.p2.radius) * (arg.p1.radius + arg.p2.radius)
    /\ ret.points = <<>>

----------------------------------------------------------------------------
(* The circle path encoding (diagram) *)

\* A string is a sequence of characters.  A parsed number is <<v>>, and <<>>
\* for NaN.
DigitChars == <<"0", "1", "2", "3", "4", "5", "6", "7", "8", "9">>

\* the decimal digits of a natural number
RECURSIVE NatToString(_)
NatToString(n) ==
    IF n < 10 THEN <<DigitChars[n + 1]>>
    ELSE NatToString(n \div 10) \o <<DigitChars[(n % 10) + 1]>>

\* the decimal digits of the fraction rem / F, by long division
RECURSIVE FracToString(_)
FracToString(rem) ==
    IF rem = 0 THEN <<>>
    ELSE <<DigitChars[((rem * 10) \div F) + 1]>> \o FracToString((rem * 10) % F)

\* Number.prototype.toString, as join() applies it: a fixed-point number is
\* a dyadic fraction, whose shortest decimal form is its exact one
NumberToString(v) ==
    LET a == Abs(v)
    IN  (IF v < 0 THEN <<"-">> ELSE <<>>)
            \o NatToString(a \div F)
            \o (IF a % F = 0 THEN <<>> ELSE <<".">> \o FracToString(a % F))

\* Array.prototype.join
RECURSIVE Join(_, _)
Join(items, sep) ==
    IF items = <<>> THEN <<>>
    ELSE IF Len(items) = 1 THEN items[1]
    ELSE items[1] \o sep \o Join(Tail(items), sep)

\* String.prototype.split on a one-character separator
RECURSIVE SplitFrom(_, _, _)
SplitFrom(str, sep, token) ==
    IF str = <<>> THEN <<token>>
    ELSE IF Head(str) = sep THEN <<token>> \o SplitFrom(Tail(str), sep, <<>>)
    ELSE SplitFrom(Tail(str), sep, Append(token, Head(str)))

Split(str, sep) == SplitFrom(str, sep, <<>>)

DigitValue(ch) == CHOOSE n \in 0..9 : DigitChars[n + 1] = ch
IsDigit(ch) == \E n \in 0..9 : DigitChars[n + 1] = ch

\* the longest prefix of digits of a string
RECURSIVE DigitPrefix(_)
DigitPrefix(str) ==
    IF str # <<>> /\ IsDigit(Head(str)) THEN <<Head(str)>> \o DigitPrefix(Tail(str))
    ELSE <<>>

RECURSIVE DigitsToNat(_, _)
DigitsToNat(digits, acc) ==
    IF digits = <<>> THEN acc
    ELSE DigitsToNat(Tail(digits), acc * 10 + DigitValue(Head(digits)))

\* parseFloat: an optional sign, digits, an optional fraction; NaN (<<>>)
\* when no digit is found.  (Leading blanks and exponents do not occur in
\* the tokens of a circle path.)
parseFloat(str) ==
    LET negative == str # <<>> /\ Head(str) = "-"
        body == IF str # <<>> /\ Head(str) \in {"-", "+"} THEN Tail(str) ELSE str
        whole == DigitPrefix(body)
        rest == SubSeq(body, Len(whole) + 1, Len(body))
        frac == IF rest # <<>> /\ Head(rest) = "."
                THEN DigitPrefix(Tail(rest)) ELSE <<>>
        value == DigitsToNat(whole, 0) * F
                    + RDiv(DigitsToNat(frac, 0) * F, 10 ^ Len(frac))
    IN  IF whole = <<>> /\ frac = <<>> THEN <<>>
        ELSE IF negative THEN <<-value>> ELSE <<value>>

\* the unary minus of a parsed number
Negate(num) == IF num = <<>> THEN <<>> ELSE <<-num[1]>>

\* tokens[i], or undefined (which parses as NaN: "") past the end
TokenAt(tokens, i) == IF i + 1 <= Len(tokens) THEN tokens[i + 1] ELSE <<>>

\* the svg path of a circle
circlePath(c) ==
    Join(<< <<"\n", "M">>, NumberToString(c.x), NumberToString(c.y),
            <<"\n", "m">>, NumberToString(-c.radius), <<"0">>,
            <<"\n", "a">>, NumberToString(c.radius), NumberToString(c.radius),
                <<"0">>, <<"1">>, <<"0">>, NumberToString(c.radius * 2), <<"0">>,
            <<"\n", "a">>, NumberToString(c.radius), NumberToString(c.radius),
                <<"0">>, <<"1">>, <<"0">>, NumberToString(-c.radius * 2), <<"0">> >>,
         <<" ">>)

\* circleFromPath without the minus sign in front of parseFloat(tokens[4])
circleFromPathNoMinus(path) ==
    LET tokens == Split(path, " ")
    IN  [x |-> parseFloat(TokenAt(tokens, 1)),
         y |-> parseFloat(TokenAt(tokens, 2)),
         radius |-> parseFloat(TokenAt(tokens, 4))]

\* inverse of circlePath: a circle from an svg path
circleFromPath(path) ==
    LET tokens == Split(path, " ")
    IN  [x |-> parseFloat(TokenAt(tokens, 1)),
         y |-> parseFloat(TokenAt(tokens, 2)),
         radius |-> Negate(parseFloat(TokenAt(tokens, 4)))]

MaxQuarters == 6

\* quarters as fixed-point numbers
Quarter(n) == n * (F \div 4)

InitCirclePath ==
    /\ op = "circlePath"
    /\ pc = "call"
    /\ arg \in [x : {Quarter(n) : n \in (-MaxQuarters)..MaxQuarters},
                y : {Quarter(n) : n \in (-MaxQuarters)..MaxQuarters},
                radius : {Quarter(n) : n \in 0..MaxQuarters}]
    /\ loc = NoValue
    /\ ret = NoValue

\* a call of circlePath(c): the path is kept as the "d" attribute of the
\* circle's element
CirclePath ==
    /\ op = "circlePath"
    /\ pc = "call"
    /\ loc' = [error |-> "none", path |-> circlePath(arg)]
    /\ pc' = "drawn"
    /\ UNCHANGED <<op, arg, ret>>

\* a call of circleFromPath(path) on the path of the previous drawing
CircleFromPath ==
    /\ op = "circlePath"
    /\ pc = "drawn"
    /\ ret' = [error |-> "none", circle |-> circleFromPath(loc.path)]
    /\ pc' = "done"
    /\ UNCHANGED <<op, arg, loc>>

NextPath == CirclePath \/ CircleFromPath

SpecPath == InitCirclePath /\ [][NextPath]_vars

\* C7: round trip: for every circle c with radius >= 0,
\* circleFromPath(circlePath(c)) has the same x, y and radius as c.
C7_PathRoundTrip ==
    Returned("circlePath") =>
        ret.circle = [x |-> <<arg.x>>, y |-> <<arg.y>>, radius |-> <<arg.radius>>]

\* C7 witness: a circle with a negative, fractional coordinate and a
\* fractional radius went through the path and back
C7_Witness ==
    /\ Returned("circlePath")
    /\ arg.x < 0
    /\ arg.x % F # 0
    /\ arg.radius % F # 0
    /\ Len(Split(loc.path, " ")) = 22
    /\ ret.circle.radius = <<arg.radius>>

----------------------------------------------------------------------------
(* bisect *)

\* parameters.maxiterations || 100
DefaultMaxIterations == 100

\* parameters.tolerance || 1e-10, in units: 1e-10 is less than one unit, so
\* Math.abs(delta) < 1e-10 is false for every delta that is not 0
DefaultTolerance == 0

\* The objective functions tried, [kind, c]:
\*   rising    f(x) = x - c         falling   f(x) = c - x
\*   step      f(x) = -1 for x < c, 1 otherwise (no zero)
\*   faint     the step scaled down to the smallest positive number
\*   constant  f(x) = c
apply(f, x) ==
    CASE f.kind = "rising" -> x - f.c
      [] f.kind = "falling" -> f.c - x
      [] f.kind = "step" -> IF x < f.c THEN -F ELSE F
      [] f.kind = "faint" -> IF x < f.c THEN -1 ELSE 1
      [] f.kind = "constant" -> f.c

\* a missing parameter is read as undefined, which is falsy like 0
maxiterationsOf(parameters) ==
    IF parameters.maxiterations = 0 THEN DefaultMaxIterations
    ELSE parameters.maxiterations

toleranceOf(parameters) ==
    IF parameters.tolerance = 0 THEN DefaultTolerance ELSE parameters.tolerance

\* bisect up to its loop: evaluates f at a and b, raises when the product
\* fa * fb, as computed, is positive, returns an endpoint that is an exact
\* root.  The product of two numbers is rounded: it is 0 when both are small
\* enough (below 2^-5 here, below 2^-537 for doubles).
bisectEnter(f, a, b) ==
    LET fa == apply(f, a)
        fb == apply(f, b)
        entered == [a |-> a, delta |-> b - a, fa |-> fa, i |-> 0, evals |-> <<a, b>>]
    IN  IF Mul(fa, fb) > 0
        THEN [pc |-> "raised", loc |-> entered,
              ret |-> [error |-> "initial bisect points must have opposite signs"]]
        ELSE IF fa = 0
        THEN [pc |-> "done", loc |-> entered, ret |-> [error |-> "none", value |-> a]]
        ELSE IF fb = 0
        THEN [pc |-> "done", loc |-> entered, ret |-> [error |-> "none", value |-> b]]
        ELSE [pc |-> "loop", loc |-> entered, ret |-> NoValue]

\* one iteration of the loop of bisect
bisectIterate(f, tolerance, l) ==
    LET delta == RDiv(l.delta, 2)
        mid == l.a + delta
        fmid == apply(f, mid)
        a == IF Mul(fmid, l.fa) >= 0 THEN mid ELSE l.a
        after == [a |-> a, delta |-> delta, fa |-> l.fa, i |-> l.i + 1,
                  evals |-> Append(l.evals, mid)]
    IN  IF Abs(delta) < tolerance \/ fmid = 0
        THEN [pc |-> "done", loc |-> after, ret |-> [error |-> "none", value |-> mid]]
        ELSE [pc |-> "loop", loc |-> after, ret |-> NoValue]

MaxEndpoint == 2
MaxIterations == 5

\* the tolerances tried (0: none given)
Tolerances == {0, F \div 64, F \div 4}

\* Halving is exact in the model down to one unit: a call is tried when its
\* iteration cap or its tolerance stops it before that.
StaysExact(parameters) ==
    \/ parameters.maxiterations >= 1 /\ 2 ^ parameters.maxiterations <= F
    \/ parameters.tolerance >= F \div 64

InitBisect ==
    /\ op = "bisect"
    /\ pc = "call"
    /\ arg \in [f : [kind : {"rising", "falling", "step", "faint", "constant"},
                     c : {-F - F \div 2, -F \div 4, 0, 1, F \div 3, F}],
                a : {Whole(n) : n \in (-MaxEndpoint)..MaxEndpoint},
                b : {Whole(n) : n \in (-MaxEndpoint)..MaxEndpoint},
                parameters : {q \in [maxiterations : 0..MaxIterations,
                                     tolerance : Tolerances] : StaysExact(q)}]
    /\ loc = NoValue
    /\ ret = NoValue

\* the call of bisect(f, a, b, parameters), up to the loop
BisectEnter ==
    /\ op = "bisect"
    /\ pc = "call"
    /\ LET r == bisectEnter(arg.f, arg.a, arg.b)
       IN  pc' = r.pc /\ loc' = r.loc /\ ret' = r.ret
    /\ UNCHANGED <<op, arg>>

\* one iteration of the loop
BisectIterate ==
    /\ op = "bisect"
    /\ pc = "loop"
    /\ loc.i < maxiterationsOf(arg.parameters)
    /\ LET r == bisectIterate(arg.f, toleranceOf(arg.parameters), loc)
       IN  pc' = r.pc /\ loc' = r.loc /\ ret' = r.ret
    /\ UNCHANGED <<op, arg>>

\* the loop ran maxiterations times: return a + delta
BisectExhausted ==
    /\ op = "bisect"
    /\ pc = "loop"
    /\ loc.i >= maxiterationsOf(arg.parameters)
    /\ pc' = "done"
    /\ ret' = [error |-> "none", value |-> loc.a + loc.delta]
    /\ UNCHANGED <<op, arg, loc>>

NextBisect == BisectEnter \/ BisectIterate \/ BisectExhausted

SpecBisect == InitBisect /\ [][NextBisect]_vars

SameSign(u, v) == (u > 0 /\ v > 0) \/ (u < 0 /\ v < 0)
OppositeSign(u, v) == (u > 0 /\ v < 0) \/ (u < 0 /\ v > 0)

\* C8: bisect raises an error and returns no value whenever f(a) and f(b) are
\* both non-zero with the same sign, having evaluated f only at a and b; it
\* never raises when the signs are opposite or an endpoint is an exact root,
\* and then returns a if f(a) = 0, else b if f(b) = 0.
C8_BisectRaises ==
    (op = "bisect" /\ pc # "call") =>
        LET fa == apply(arg.f, arg.a)
            fb == apply(arg.f, arg.b)
        IN  /\ SameSign(fa, fb) =>
                (pc = "raised" /\ ret.error # "none" /\ loc.evals = <<arg.a, arg.b>>)
            /\ ~SameSign(fa, fb) => pc # "raised"
            /\ fa = 0 => (pc = "done" /\ ret.value = arg.a)
            /\ (fa # 0 /\ fb = 0) => (pc = "done" /\ ret.value = arg.b)

\* |b - a| / 2^n, in units (0 once 2^n exceeds every |b - a| of the model)
WidthAfter(n) == IF 2 ^ Min(n, 20) > 8 * F THEN 0 ELSE Abs(arg.b - arg.a) \div (2 ^ n)

\* C9: with f(a) and f(b) of opposite sign, bisect stops after at most
\* maxiterations halvings and returns a value x between a and b such that a
\* sign change of f lies within max(tolerance, |b - a| / 2^maxiterations) of
\* x; throughout the loop [a, a + delta] brackets a sign change; for
\* f(x) = x on [-1, 1] the result is within tolerance of 0.
C9_BisectBrackets ==
    (/\ op = "bisect"
     /\ pc \in {"loop", "done"}
     /\ OppositeSign(apply(arg.f, arg.a), apply(arg.f, arg.b))) =>
        LET maxiterations == maxiterationsOf(arg.parameters)
            tolerance == toleranceOf(arg.parameters)
            width == Abs(loc.delta)
        IN  /\ loc.i <= maxiterations
            /\ Len(loc.evals) = 2 + loc.i
            /\ pc = "loop" =>
                    OppositeSign(apply(arg.f, loc.a), apply(arg.f, loc.a + loc.delta))
            /\ pc = "done" =>
                    /\ Min(arg.a, arg.b) <= ret.value
                    /\ ret.value <= Max(arg.a, arg.b)
                    /\ \/ apply(arg.f, ret.value) = 0
                       \/ /\ width <= Max(tolerance, WidthAfter(maxiterations))
                          /\ \/ OppositeSign(apply(arg.f, ret.value - width),
                                             apply(arg.f, ret.value))
                             \/ OppositeSign(apply(arg.f, ret.value),
                                             apply(arg.f, ret.value + width))
                    /\ (arg.f = [kind |-> "rising", c |-> 0]
                            /\ arg.a = -F /\ arg.b = F) =>
                        Abs(ret.value) <= tolerance

----------------------------------------------------------------------------
\* nelderMead.ts: nelderMead2d

\* the defaults nonZeroDelta: 1.05 and zeroDelta: 0.001, in units of 1/F
\* (the smallest positive value of the model stands for 0.001)
NonZeroDelta == 1075
ZeroDelta == 1

\* const {...} = { ...parameters, ...defaultParameters }: the later spread
\* wins, so every name is bound to its default whatever the caller passed
destructure(parameters) ==
    [nonZeroDelta |-> NonZeroDelta, zeroDelta |-> ZeroDelta]

\* the objective functions tried: f(x) for an array x of numbers
RECURSIVE SumOf(_)
SumOf(x) == IF x = <<>> THEN 0 ELSE Head(x) + SumOf(Tail(x))

evaluate(f, x) ==
    CASE f = "sum"      -> SumOf(x)
      [] f = "norm1"    -> SumOf([i \in 1..Len(x) |-> Abs(x[i])])
      [] f = "negsum"   -> -SumOf(x)
      [] f = "constant" -> F

\* shallowCopy(arr): arr.slice(), a new array with the same items
shallowCopy(arr) == arr

\* lines 66-75: the simplex is an array of N + 1 empty slots; slot 0 is made
\* the initial guess itself, which receives the properties fx and id.  A slot
\* is <<>> when empty and <<object>> when set.
simplexOfGuess(f, initialGuess) ==
    LET N == Len(initialGuess)
        guess == [items |-> initialGuess,
                  fx |-> evaluate(f, initialGuess),
                  id |-> 0]
    IN  [i \in 1..(N + 1) |-> IF i = 1 THEN <<guess>> ELSE <<>>]

\* line 79, for the index i (counted from 1 here)
perturb(point, i, p) ==
    [point EXCEPT ![i] = IF point[i] # 0 THEN Mul(point[i], p.nonZeroDelta)
                                         ELSE p.zeroDelta]

\* lines 78-82, one pass of the loop that fills the simplex: slot i + 1 was
\* never assigned, so simplex[i + 1].coordinates = point sets a property of
\* undefined and raises a TypeError; a set slot would take the point
fillVertex(f, l, p) ==
    LET point == perturb(shallowCopy(l.initialGuess.items), l.i + 1, p)
        slot == l.simplex[l.i + 2]
    IN  IF slot = <<>>
        THEN [pc |-> "raised",
              loc |-> [l EXCEPT !.point = point],
              ret |-> [error |-> "TypeError"]]
        ELSE [pc |-> "fill",
              loc |-> [l EXCEPT !.point = point, !.i = l.i + 1,
                                !.simplex[l.i + 2] =
                                    <<[items |-> slot[1].items,
                                       coordinates |-> point,
                                       fx |-> evaluate(f, point),
                                       id |-> l.i + 1]>>],
              ret |-> NoValue]

\* the vertex the final simplex.sort(sortOrder) puts first: a smallest fx,
\* the earliest such (the sort is stable)
RECURSIVE firstSmallest(_, _)
firstSmallest(simplex, i) ==
    IF \A j \in 1..Len(simplex) : simplex[i][1].fx <= simplex[j][1].fx
    THEN simplex[i][1]
    ELSE firstSmallest(simplex, i + 1)

MaxDim == 2
MaxGuess == 1

Guesses ==
    UNION {[1..n -> {Whole(k) : k \in (-MaxGuess)..MaxGuess}] : n \in 0..MaxDim}

InitNelderMead ==
    /\ op = "nelderMead2d"
    /\ pc = "call"
    /\ arg \in [f : {"sum", "norm1", "negsum", "constant"},
                initialGuess : Guesses,
                parameters : {<<>>, <<[nonZeroDelta |-> 2 * F]>>}]
    /\ loc = NoValue
    /\ ret = NoValue

\* lines 56-75: the call, up to the loop that fills the simplex
NelderMeadEnter ==
    /\ op = "nelderMead2d"
    /\ pc = "call"
    /\ pc' = "fill"
    /\ loc' = [error |-> "none",
               p |-> destructure(arg.parameters),
               N |-> Len(arg.initialGuess),
               maxIterations |-> Len(arg.initialGuess) * 200,
               i |-> 0,
               point |-> <<>>,
               simplex |-> simplexOfGuess(arg.f, arg.initialGuess),
               initialGuess |-> simplexOfGuess(arg.f, arg.initialGuess)[1][1]]
    /\ UNCHANGED <<op, arg, ret>>

\* lines 77-83: one pass of the loop that fills the simplex
NelderMeadFill ==
    /\ op = "nelderMead2d"
    /\ pc = "fill"
    /\ loc.i < loc.N
    /\ LET r == fillVertex(arg.f, loc, loc.p)
       IN  pc' = r.pc /\ loc' = r.loc /\ ret' = r.ret
    /\ UNCHANGED <<op, arg>>

\* lines 85-197 once the simplex is filled.  The fill loop ends without
\* raising only for N = 0; maxIterations is then 0, the main loop (lines
\* 100-194) makes no pass, and the one vertex is returned.
NelderMeadReturn ==
    /\ op = "nelderMead2d"
    /\ pc = "fill"
    /\ loc.i >= loc.N
    /\ loc.maxIterations = 0
    /\ pc' = "done"
    /\ ret' = [error |-> "none",
               iterations |-> 0,
               value_at_peak |-> firstSmallest(loc.simplex, 1).fx,
               index_at_peak |-> firstSmallest(loc.simplex, 1)]
    /\ UNCHANGED <<op, arg, loc>>

NextNelderMead == NelderMeadEnter \/ NelderMeadFill \/ NelderMeadReturn

SpecNelderMead == InitNelderMead /\ [][NextNelderMead]_vars

\* C10: for any objective and any initial point of dimension n >= 1,
\* nelderMead2d completes without raising, after at most n * 200 iterations,
\* and returns the vertex of the final simplex with the smallest objective
\* value together with that value; the simplex holds n + 1 vertices.
C10_NelderMeadCompletes ==
    (op = "nelderMead2d" /\ pc \in {"done", "raised"}
                         /\ Len(arg.initialGuess) >= 1) =>
        /\ pc = "done"
        /\ ret.error = "none"
        /\ ret.iterations <= Len(arg.initialGuess) * 200
        /\ Len(loc.simplex) = Len(arg.initialGuess) + 1
        /\ \A j \in 1..Len(loc.simplex) :
               /\ loc.simplex[j] # <<>>
               /\ ret.value_at_peak <= loc.simplex[j][1].fx
        /\ ret.value_at_peak = ret.index_at_peak.fx

\* C11: every parameter the caller supplies is the value the run uses; a
\* default is used only for a parameter the caller omitted.  Stated for
\* nonZeroDelta once the parameters are bound (lines 56-65).
C11_CallerParametersUsed ==
    (op = "nelderMead2d" /\ pc # "call" /\ arg.parameters # <<>>) =>
        loc.p.nonZeroDelta = arg.parameters[1].nonZeroDelta

\* C16: an optimizer does not modify its caller's inputs: after nelderMead2d
\* returns, the initial point passed in has the same coordinates and carries
\* no added properties.  loc.initialGuess is the caller's array after the
\* call.
C16_InitialGuessUntouched ==
    (op = "nelderMead2d" /\ pc = "done") =>
        /\ loc.initialGuess.items = arg.initialGuess
        /\ DOMAIN loc.initialGuess = {"items"}

----------------------------------------------------------------------------
\* part_000: chart, the filtering of the input and the calls of the layout

\* the set identifiers tried; an identifier is any string
Identifiers == {"A", "B", "constructor"}

\* const toremove = {}: an object literal inherits from Object.prototype,
\* and these are among the names it inherits
ObjectPrototypeKeys ==
    {"constructor", "toString", "valueOf", "hasOwnProperty"}

\* lines 41-46: the own keys of toremove after the forEach
toremoveOf(data) ==
    {data[i].sets[1] : i \in {j \in 1..Len(data) :
                                 data[j].size = 0 /\ Len(data[j].sets) = 1}}

\* lines 48-50: datum.sets.some(set => set in toremove); the operator in
\* holds for own and for inherited property names
mentionsRemoved(sets, toremove) ==
    \E k \in 1..Len(sets) :
        sets[k] \in toremove \/ sets[k] \in ObjectPrototypeKeys

\* lines 47-51: data.filter(...)
filterData(data) ==
    LET toremove == toremoveOf(data)
        keep(datum) == ~mentionsRemoved(datum.sets, toremove)
    IN  SelectSeq(data, keep)

MaxRegions == 2
MaxSize == 1

\* sets of a region: one identifier, or two distinct ones in either order
RegionSets ==
    {<<a>> : a \in Identifiers}
        \cup {q \in Identifiers \X Identifiers : q[1] # q[2]}

Regions == [sets : RegionSets, size : {Whole(n) : n \in 0..MaxSize}]

InitChart ==
    /\ op = "chart"
    /\ pc = "call"
    /\ arg \in [data : UNION {[1..n -> Regions] : n \in 0..MaxRegions}]
    /\ loc = NoValue
    /\ ret = NoValue

\* lines 38-51: the datum of the selection, filtered
ChartFilter ==
    /\ op = "chart"
    /\ pc = "call"
    /\ pc' = "filtered"
    /\ loc' = [error |-> "none",
               toremove |-> toremoveOf(arg.data),
               data |-> filterData(arg.data)]
    /\ UNCHANGED <<op, arg, ret>>

\* lines 53-65: with regions left, layoutFunction and computeTextCentres are
\* called with the filtered data.  computeTextCentres calls computeTextCentre
\* for each region, which raises (an empty interior has no first circle, and
\* nelderMead2d raises on a two-dimensional guess), so the call of chart
\* ends there.
ChartLayout ==
    /\ op = "chart"
    /\ pc = "filtered"
    /\ loc.data # <<>>
    /\ pc' = "raised"
    /\ ret' = [error |-> "TypeError",
               data |-> loc.data,
               layoutFunction |-> <<loc.data>>,
               computeTextCentres |-> <<loc.data>>]
    /\ UNCHANGED <<op, arg, loc>>

\* lines 53-65 with no region left: circles and textCentres stay empty, and
\* the rest of chart binds an empty selection
ChartEmpty ==
    /\ op = "chart"
    /\ pc = "filtered"
    /\ loc.data = <<>>
    /\ pc' = "done"
    /\ ret' = [error |-> "none",
               data |-> loc.data,
               layoutFunction |-> <<>>,
               computeTextCentres |-> <<>>]
    /\ UNCHANGED <<op, arg, loc>>

NextChart == ChartFilter \/ ChartLayout \/ ChartEmpty

SpecChart == InitChart /\ [][NextChart]_vars

\* an identifier of sets has a singleton region of size 0 in data
HasZeroSingleton(sets, data) ==
    \E k \in 1..Len(sets) : \E i \in 1..Len(data) :
        data[i].sets = <<sets[k]>> /\ data[i].size = 0

\* the regions of data that mention no identifier with a zero singleton, in
\* their order in data
KeptRegions(data) ==
    LET keep(datum) == ~HasZeroSingleton(datum.sets, data)
    IN  SelectSeq(data, keep)

\* C1: a region is dropped if and only if one of its identifiers has a
\* singleton region of size 0; the kept regions stay in their order; the
\* circles and the label anchors are computed from the kept regions only.
C1_ChartFilter ==
    (op = "chart" /\ pc \in {"done", "raised"}) =>
        /\ ret.data = KeptRegions(arg.data)
        /\ \A i \in 1..Len(ret.layoutFunction) :
               ret.layoutFunction[i] = KeptRegions(arg.data)
        /\ \A i \in 1..Len(ret.computeTextCentres) :
               ret.computeTextCentres[i] = KeptRegions(arg.data)

\* the same statement for inputs none of whose identifiers is a name that
\* objects inherit
ChartFilterPlainIdentifiers ==
    (/\ op = "chart" /\ pc \in {"done", "raised"}
     /\ \A i \in 1..Len(arg.data) : \A k \in 1..Len(arg.data[i].sets) :
            arg.data[i].sets[k] \notin ObjectPrototypeKeys) =>
        /\ ret.data = KeptRegions(arg.data)
        /\ \A i \in 1..Len(ret.layoutFunction) :
               ret.layoutFunction[i] = KeptRegions(arg.data)
        /\ \A i \in 1..Len(ret.computeTextCentres) :
               ret.computeTextCentres[i] = KeptRegions(arg.data)

----------------------------------------------------------------------------
\* blas1.ts and part_001: dot, norm2, weightedSum, scale

\* the value NaN of a number (what arithmetic on undefined gives)
NaN == 0 - 2 ^ 30

\* v[index] in arithmetic: undefined, hence NaN, beyond the end of the array
at(v, index) == IF index <= Len(v) THEN v[index] ELSE NaN

\* x * y and x + y where an operand may be NaN
Times(x, y) == IF x = NaN \/ y = NaN THEN NaN ELSE Mul(x, y)
Plus(x, y) == IF x = NaN \/ y = NaN THEN NaN ELSE x + y

\* dot(a, b): throws Error("must be the same size") unless the lengths agree
dot(a, b) ==
    IF Len(a) # Len(b)
    THEN [error |-> "Error", value |-> NaN]
    ELSE [error |-> "none",
          value |-> SumOf([i \in 1..Len(a) |-> Mul(a[i], b[i])])]

norm2(a) == Sqrt(dot(a, a).value)

\* weightedSum(ret, w1, v1, w2, v2), with the parameter ret named into here:
\* returns ret.map(...), a new array with one entry for each index of ret;
\* ret itself is not written
weightedSum(into, w1, v1, w2, v2) ==
    [error |-> "none",
     ret |-> into,
     value |-> [index \in 1..Len(into) |->
                   Plus(Times(w1, at(v1, index)), Times(w2, at(v2, index)))]]

\* scale(ret, value, c), with the parameter ret named into here: writes
\* ret[i] = value[i] * c for each index of value (an array grows when an
\* index beyond its end is assigned); returns nothing
scale(into, value, c) ==
    [error |-> "none",
     ret |-> [i \in 1..Max(Len(into), Len(value)) |->
                 IF i <= Len(value) THEN Mul(value[i], c) ELSE into[i]]]

\* zeros(x): new Array(x).fill(0)
zeros(x) == [i \in 1..x |-> 0]

InitVector ==
    /\ pc = "call"
    /\ loc = NoValue
    /\ ret = NoValue
    /\ \/ op = "dot" /\ arg \in [a : Guesses, b : Guesses]
       \/ /\ op = "weightedSum"
          /\ arg \in [ret : {zeros(n) : n \in 0..MaxDim}, w1 : {F},
                      v1 : Guesses, w2 : {-F, 2 * F}, v2 : Guesses]
       \/ op = "scale" /\ arg \in [ret : Guesses, value : Guesses, c : {-F, 2 * F}]

\* loc.ret is the caller's array ret after the call
Dot ==
    /\ op = "dot"
    /\ pc = "call"
    /\ pc' = IF dot(arg.a, arg.b).error = "none" THEN "done" ELSE "raised"
    /\ ret' = dot(arg.a, arg.b)
    /\ UNCHANGED <<op, arg, loc>>

WeightedSum ==
    /\ op = "weightedSum"
    /\ pc = "call"
    /\ \E r \in {weightedSum(arg.ret, arg.w1, arg.v1, arg.w2, arg.v2)} :
          /\ pc' = "done"
          /\ loc' = [error |-> "none", ret |-> r.ret]
          /\ ret' = [error |-> "none", value |-> r.value]
    /\ UNCHANGED <<op, arg>>

Scale ==
    /\ op = "scale"
    /\ pc = "call"
    /\ pc' = "done"
    /\ loc' = scale(arg.ret, arg.value, arg.c)
    /\ ret' = NoValue
    /\ UNCHANGED <<op, arg>>

NextVector == Dot \/ WeightedSum \/ Scale

SpecVector == InitVector /\ [][NextVector]_vars

\* the two vectors a call of dot, weightedSum or scale was given
vectorsOf ==
    CASE op = "dot"         -> <<arg.a, arg.b>>
      [] op = "weightedSum" -> <<arg.v1, arg.v2>>
      [] op = "scale"       -> <<arg.ret, arg.value>>

\* C13: dot, weightedSum and scale raise an error when the two vectors they
\* are given differ in length; none returns, or writes, a result holding
\* undefined or NaN entries.
C13_VectorLengthsChecked ==
    (/\ op \in {"dot", "weightedSum", "scale"}
     /\ pc \in {"done", "raised"}
     /\ Len(vectorsOf[1]) # Len(vectorsOf[2])) =>
        pc = "raised"

----------------------------------------------------------------------------
\* part_001 and bigRewrites.ts: conjugateGradient and wolfeLineSearch

\* the objectives tried: f(x, fxprime) returns the value at x and writes the
\* gradient at x into fxprime.  "half" is x.x / 2, "sum" the sum of the
\* coordinates, "constant" is 1, and "nan" is an objective whose value is not
\* a number at the points tried (its gradient is all ones).
valueAndGradient(f, x) ==
    CASE f = "half" ->
             [fx |-> RDiv(SumOf([i \in 1..Len(x) |-> Mul(x[i], x[i])]), 2),
              fxprime |-> x]
      [] f = "sum" -> [fx |-> SumOf(x), fxprime |-> [i \in 1..Len(x) |-> F]]
      [] f = "constant" -> [fx |-> F, fxprime |-> zeros(Len(x))]
      [] f = "nan" -> [fx |-> NaN, fxprime |-> [i \in 1..Len(x) |-> F]]

\* step sizes (a, a0, a_lo, a_high) are counted in units of 1/StepUnit, so
\* that the 16 halvings of zoom are exact
StepUnit == 2 ^ 16

\* a step size as a number in units of 1/F
stepAsNumber(a) == RDiv(a, StepUnit \div F)

\* x >= y of numbers: false when an operand is NaN
atLeast(x, y) == x # NaN /\ y # NaN /\ x >= y

\* phi > phi0 + c1 * a * phiPrime0 with c1 = 1e-6.  For the steps and
\* gradients tried c1 * a * phiPrime0 is smaller than one unit of phi and
\* larger than the rounding of a double, so it decides exactly the ties.
decreaseFails(phi, phi0, a, phiPrime0) ==
    IF phi = NaN \/ phi0 = NaN THEN FALSE
    ELSE IF phi # phi0 THEN phi > phi0
    ELSE (a > 0 /\ phiPrime0 < 0) \/ (a < 0 /\ phiPrime0 > 0)

\* Math.abs(phiPrime) <= -c2 * phiPrime0 with c2 = 0.1
curvatureHolds(phiPrime, phiPrime0) == 10 * Abs(phiPrime) <= -phiPrime0

\* params.maxIterations || initial.length * 20 (params is <<>> when the
\* caller passes none, and so is a field the caller leaves out)
cgMaxIterations(params, initial) ==
    IF params # <<>> /\ params[1].maxIterations # <<>>
                     /\ params[1].maxIterations[1] # 0
    THEN params[1].maxIterations[1]
    ELSE Len(initial) * 20

\* part_001 lines 93-115, the call up to the main loop.  The module does not
\* load where const is kept (const temp; has no initializer, line 107, and
\* a and next are assigned later); where const becomes var the call goes on.
\* bigRewrites.ts has a break in the callback of history.map (line 114),
\* outside any loop, and does not load under any target.
conjugateGradientEnter(a) ==
    IF a.module = "bigRewrites" \/ a.target = "ES2015"
    THEN [pc |-> "raised", loc |-> NoValue, ret |-> [error |-> "SyntaxError"]]
    ELSE Let(valueAndGradient(a.f, shallowCopy(a.initial)), LAMBDA e :
         [pc |-> "loop",
          ret |-> NoValue,
          loc |-> [error |-> "none",
                   current |-> [x |-> shallowCopy(a.initial), fx |-> e.fx,
                                fxprime |-> e.fxprime],
                   next |-> [x |-> shallowCopy(a.initial), fx |-> 0,
                             fxprime |-> shallowCopy(a.initial)],
                   yk |-> shallowCopy(a.initial),
                   pk |-> scale(shallowCopy(e.fxprime), e.fxprime, -F).ret,
                   a |-> StepUnit,
                   beta_k |-> 0,
                   maxIterations |-> cgMaxIterations(a.params, a.initial),
                   i |-> 0,
                   history |-> IF a.params = <<>> THEN <<>>
                               ELSE a.params[1].history,
                   phi0 |-> 0, phiPrime0 |-> 0, phi |-> 0, phi_old |-> 0,
                   phiPrime |-> 0, a0 |-> 0, iteration |-> 0,
                   a_lo |-> 0, a_high |-> 0, phi_lo |-> 0, zoomIteration |-> 0,
                   evaluations |-> 0, searches |-> 0, exit |-> "none"]])

\* part_001 lines 173-182, the entry of wolfeLineSearch(f, pk, current,
\* next, a); evaluations counts the calls of f in this search
wolfeEnter(l) ==
    Let(dot(l.current.fxprime, l.pk).value, LAMBDA phiPrime0 :
        [l EXCEPT !.phi0 = l.current.fx, !.phiPrime0 = phiPrime0,
                  !.phi = l.current.fx, !.phi_old = l.current.fx,
                  !.phiPrime = phiPrime0, !.a0 = 0,
                  !.a = IF l.a = 0 THEN StepUnit ELSE l.a,
                  !.iteration = 0, !.zoomIteration = 0,
                  !.evaluations = 0, !.searches = l.searches + 1,
                  !.exit = "none"])

\* lines 187-189 and 212-214, a trial of the step a: weightedSum returns the
\* point current.x + a * pk in a new array, which is dropped, and next.x
\* stays as it was; f is evaluated at next.x
trial(f, l, a) ==
    Let(weightedSum(l.next.x, F, l.current.x, stepAsNumber(a), l.pk).ret,
        LAMBDA x :
        Let(valueAndGradient(f, x), LAMBDA e :
            [l EXCEPT !.a = a,
                      !.next = [x |-> x, fx |-> e.fx, fxprime |-> e.fxprime],
                      !.phi = e.fx,
                      !.phiPrime = dot(e.fxprime, l.pk).value,
                      !.evaluations = l.evaluations + 1]))

\* return zoom(a_lo, a_high, phi_lo): the entry of zoom
zoomEnter(l, a_lo, a_high, phi_lo) ==
    [pc |-> "zoom",
     loc |-> [l EXCEPT !.a_lo = a_lo, !.a_high = a_high, !.phi_lo = phi_lo,
                       !.zoomIteration = 0]]

\* return a (or 0) from wolfeLineSearch
wolfeReturn(l, a, exit) ==
    [pc |-> "searched", loc |-> [l EXCEPT !.a = a, !.exit = exit]]

\* lines 211-230, one pass of the outer loop of wolfeLineSearch
wolfeOuter(f, l) ==
    Let(trial(f, l, l.a), LAMBDA t :
        IF \/ decreaseFails(t.phi, t.phi0, t.a, t.phiPrime0)
           \/ (t.iteration # 0 /\ atLeast(t.phi, t.phi_old))
        THEN zoomEnter(t, t.a0, t.a, t.phi_old)
        ELSE IF curvatureHolds(t.phiPrime, t.phiPrime0)
        THEN wolfeReturn(t, t.a, "outer")
        ELSE IF t.phiPrime >= 0
        THEN zoomEnter(t, t.a, t.a0, t.phi)
        ELSE [pc |-> "outer",
              loc |-> [t EXCEPT !.phi_old = t.phi, !.a0 = t.a, !.a = t.a * 2,
                                !.iteration = t.iteration + 1]])

\* lines 185-206, one pass of the loop of zoom
zoomIterate(f, l) ==
    Let(trial(f, l, (l.a_lo + l.a_high) \div 2), LAMBDA t :
        IF \/ decreaseFails(t.phi, t.phi0, t.a, t.phiPrime0)
           \/ atLeast(t.phi, t.phi_lo)
        THEN [pc |-> "zoom",
              loc |-> [t EXCEPT !.a_high = t.a,
                                !.zoomIteration = t.zoomIteration + 1]]
        ELSE IF curvatureHolds(t.phiPrime, t.phiPrime0)
        THEN wolfeReturn(t, t.a, "zoom")
        ELSE [pc |-> "zoom",
              loc |-> [t EXCEPT !.a_high =
                                    IF \/ t.phiPrime = 0
                                       \/ t.a_high = t.a_lo
                                       \/ (t.phiPrime > 0) = (t.a_high > t.a_lo)
                                    THEN t.a_lo ELSE t.a_high,
                                !.a_lo = t.a,
                                !.phi_lo = t.phi,
                                !.zoomIteration = t.zoomIteration + 1]])

\* the norm of the gradient at which the main loop stops: 1e-5, which is
\* below one unit of the numbers here
GradientTolerance == 0

\* the record pushed on params.history (lines 122-127 and 154-159)
historyWith(l) ==
    IF l.history = <<>> THEN <<>>
    ELSE <<Append(l.history[1],
                  [x |-> l.current.x, fx |-> l.current.fx,
                   fxprime |-> l.current.fxprime, alpha |-> l.a])>>

\* Math.max(0, dot(yk, next.fxprime) / delta_k): 0 / 0 is NaN, and so is
\* Math.max(0, NaN); delta_k is 0 only where next.fxprime is all zeros too
betaOf(yk, fxprime, delta_k) ==
    IF delta_k = 0 /\ dot(yk, fxprime).value = 0 THEN NaN
    ELSE Max(0, Div(dot(yk, fxprime).value, delta_k))

\* lines 119-150, the rest of a pass of the main loop once the line search
\* has returned a: the direction is reset (a is 0) or updated and current and
\* next are swapped; the calls of weightedSum leave yk and pk as they were
conjugateGradientStep(l) ==
    Let(IF l.a = 0
        THEN [l EXCEPT !.history = historyWith(l),
                       !.pk = scale(l.pk, l.current.fxprime, -F).ret]
        ELSE Let(betaOf(weightedSum(l.yk, F, l.next.fxprime,
                                    -F, l.current.fxprime).ret,
                        l.next.fxprime,
                        dot(l.current.fxprime, l.current.fxprime).value),
                 LAMBDA beta_k :
                 [l EXCEPT !.history = historyWith(l),
                           !.beta_k = beta_k,
                           !.pk = weightedSum(l.pk, beta_k, l.pk,
                                              -F, l.next.fxprime).ret,
                           !.current = l.next,
                           !.next = l.current]),
        LAMBDA s :
        IF norm2(s.current.fxprime) <= GradientTolerance
        THEN [pc |-> "exit", loc |-> s]
        ELSE [pc |-> "loop", loc |-> [s EXCEPT !.i = s.i + 1]])

MaxCap == 2

\* the params tried: none, or an object with or without maxIterations and
\* with or without a history list (given empty)
CgParams ==
    {<<>>} \cup
    {<<p>> : p \in [maxIterations : {<<>>} \cup {<<k>> : k \in 0..MaxCap},
                    history : {<<>>, << <<>> >>}]}

InitConjugateGradient ==
    /\ op = "conjugateGradient"
    /\ pc = "call"
    /\ arg \in [module : {"part_001", "bigRewrites"}, target : Targets,
                f : {"half", "sum", "constant", "nan"},
                initial : Guesses, params : CgParams]
    /\ arg.f = "nan" => cgMaxIterations(arg.params, arg.initial) <= 1
    /\ loc = NoValue
    /\ ret = NoValue

ConjugateGradientEnter ==
    /\ op = "conjugateGradient"
    /\ pc = "call"
    /\ \E r \in {conjugateGradientEnter(arg)} :
          pc' = r.pc /\ loc' = r.loc /\ ret' = r.ret
    /\ UNCHANGED <<op, arg>>

\* line 118: a pass of the main loop starts with the call of wolfeLineSearch
WolfeEnter ==
    /\ op = "conjugateGradient"
    /\ pc = "loop"
    /\ loc.i < loc.maxIterations
    /\ pc' = "outer"
    /\ loc' = wolfeEnter(loc)
    /\ UNCHANGED <<op, arg, ret>>

WolfeOuter ==
    /\ op = "conjugateGradient"
    /\ pc = "outer"
    /\ loc.iteration < 10
    /\ \E r \in {wolfeOuter(arg.f, loc)} : pc' = r.pc /\ loc' = r.loc
    /\ UNCHANGED <<op, arg, ret>>

\* line 232: the outer loop has made its 10 passes
WolfeExhausted ==
    /\ op = "conjugateGradient"
    /\ pc = "outer"
    /\ loc.iteration >= 10
    /\ \E r \in {wolfeReturn(loc, loc.a, "outer exhausted")} :
          pc' = r.pc /\ loc' = r.loc
    /\ UNCHANGED <<op, arg, ret>>

WolfeZoom ==
    /\ op = "conjugateGradient"
    /\ pc = "zoom"
    /\ loc.zoomIteration < 16
    /\ \E r \in {zoomIterate(arg.f, loc)} : pc' = r.pc /\ loc' = r.loc
    /\ UNCHANGED <<op, arg, ret>>

\* line 208: the loop of zoom has made its 16 passes
ZoomExhausted ==
    /\ op = "conjugateGradient"
    /\ pc = "zoom"
    /\ loc.zoomIteration >= 16
    /\ \E r \in {wolfeReturn(loc, 0, "zoom exhausted")} :
          pc' = r.pc /\ loc' = r.loc
    /\ UNCHANGED <<op, arg, ret>>

ConjugateGradientStep ==
    /\ op = "conjugateGradient"
    /\ pc = "searched"
    /\ \E r \in {conjugateGradientStep(loc)} : pc' = r.pc /\ loc' = r.loc
    /\ UNCHANGED <<op, arg, ret>>

\* lines 117 and 153-162: the main loop ends and current is returned
ConjugateGradientReturn ==
    /\ op = "conjugateGradient"
    /\ pc = "exit" \/ (pc = "loop" /\ loc.i >= loc.maxIterations)
    /\ pc' = "done"
    /\ loc' = [loc EXCEPT !.history = historyWith(loc)]
    /\ ret' = [error |-> "none", value |-> loc.current]
    /\ UNCHANGED <<op, arg>>

NextConjugateGradient ==
    \/ ConjugateGradientEnter
    \/ WolfeEnter
    \/ WolfeOuter
    \/ WolfeExhausted
    \/ WolfeZoom
    \/ ZoomExhausted
    \/ ConjugateGradientStep
    \/ ConjugateGradientReturn

SpecConjugateGradient == InitConjugateGradient /\ [][NextConjugateGradient]_vars

\* the number of passes of the main loop made so far
passesOf(l) == l.searches

\* C12: for any objective and initial point of dimension n, conjugateGradient
\* runs one line search in each pass of its main loop, makes at most
\* maxIterations passes (20 * n when no cap is supplied), returns the current
\* point without raising, and evaluates the objective at most 26 times in a
\* pass.
C12_ConjugateGradientCompletes ==
    (op = "conjugateGradient" /\ pc \in {"done", "raised"}) =>
        /\ pc = "done"
        /\ ret.value = loc.current
        /\ passesOf(loc) <=
               (IF arg.params # <<>> /\ arg.params[1].maxIterations # <<>>
                THEN arg.params[1].maxIterations[1]
                ELSE Len(arg.initial) * 20)
        /\ loc.evaluations <= 26

\* C20: wolfeLineSearch returns a non-zero step only when the step meets the
\* sufficient-decrease condition (phi <= phi0 + c1 * a * phiPrime0) and the
\* curvature condition (|phiPrime| <= -c2 * phiPrime0); when the 10 passes of
\* the outer loop or the 16 passes of zoom are used up it returns 0.
C20_WolfeStep ==
    (op = "conjugateGradient" /\ pc = "searched") =>
        /\ loc.a # 0 =>
               /\ loc.phi # NaN /\ loc.phi0 # NaN
               /\ ~decreaseFails(loc.phi, loc.phi0, loc.a, loc.phiPrime0)
               /\ curvatureHolds(loc.phiPrime, loc.phiPrime0)
        /\ loc.exit \in {"outer exhausted", "zoom exhausted"} => loc.a = 0

\* the point current.x + a * pk of a step a, as weightedSum computes it
pointAlong(l) ==
    weightedSum(l.next.x, F, l.current.x, stepAsNumber(l.a), l.pk).value

\* C21: when wolfeLineSearch returns a non-zero step a, next holds the point
\* current.x + a * pk with the objective value and the gradient at that
\* point; and each trial, in zoom as well, evaluates the objective at the
\* point of its own step.
C21_NextPointMoves ==
    (op = "conjugateGradient" /\ (pc = "zoom" \/ (pc = "searched" /\ loc.a # 0)))
        => /\ loc.next.x = pointAlong(loc)
           /\ loc.next.fx = valueAndGradient(arg.f, pointAlong(loc)).fx
           /\ loc.next.fxprime = valueAndGradient(arg.f, pointAlong(loc)).fxprime

\* y = g_next - g_current, the difference of the gradients of next and
\* current
gradientDifference(l) ==
    weightedSum(l.next.fxprime, F, l.next.fxprime, -F, l.current.fxprime).value

\* beta = max(0, (y . g_next) / (g_current . g_current))
polakRibiere(l) ==
    betaOf(gradientDifference(l), l.next.fxprime,
           dot(l.current.fxprime, l.current.fxprime).value)

\* C22: in a pass of the main loop whose line search returned 0, current and
\* next stay as they were and the direction pk becomes the negated gradient
\* of current; in a pass whose line search returned a non-zero step, current
\* and next are swapped and pk becomes beta * pk - g_next with
\* beta = max(0, (y . g_next) / (g_current . g_current)), which is not
\* negative.
C22_DirectionUpdate ==
    [][(op = "conjugateGradient" /\ pc = "searched") =>
           IF loc.a = 0
           THEN /\ loc'.current = loc.current
                /\ loc'.next = loc.next
                /\ loc'.pk = [i \in 1..Len(loc.current.fxprime) |->
                                 0 - loc.current.fxprime[i]]
           ELSE /\ loc'.current = loc.next
                /\ loc'.next = loc.current
                /\ loc'.beta_k = polakRibiere(loc)
                /\ ~(polakRibiere(loc) # NaN /\ polakRibiere(loc) < 0)
                /\ loc'.pk = weightedSum(loc.pk, polakRibiere(loc), loc.pk,
                                         -F, loc.next.fxprime).value]_vars

----------------------------------------------------------------------------
\* diagram.ts: circleMargin, computeTextCentre, getOverlappingCircles and
\* computeTextCentres

\* the 1e-10 added in the tests of getOverlappingCircles, which is below one
\* unit of the numbers here
OverlapTolerance == 0

\* key in object, for an object made by the literal {} with the own keys
\* given: the operator in holds for inherited names as well
inObject(key, own) == key \in own \/ key \in ObjectPrototypeKeys

\* getOverlappingCircles(circles), for the dictionary circles given as the
\* list of its entries in the order of for-in: for each identifier, the
\* identifiers of the circles that hold its circle whole (of two circles
\* that hold each other, only the earlier is listed for the later)
getOverlappingCircles(circles) ==
    LET holds(i, j) ==
            distance(circles[i], circles[j]) + circles[j].radius
                <= circles[i].radius + OverlapTolerance
    IN  [id \in {circles[k].id : k \in 1..Len(circles)} |->
            {circles[i].id : i \in {i \in 1..Len(circles) :
                \E j \in 1..Len(circles) :
                    /\ circles[j].id = id
                    /\ \/ i < j /\ holds(i, j)
                       \/ j < i /\ ~holds(j, i) /\ holds(i, j)}}]

\* computeTextCentres lines 191-213: interior and exterior of the region
\* with the sets area
classesOf(circles, overlapped, area) ==
    LET areaids == {area[j] : j \in 1..Len(area)}
        exclude == UNION {overlapped[area[j]] : j \in 1..Len(area)}
        isInterior(c) == inObject(c.id, areaids)
        isExterior(c) == ~inObject(c.id, areaids) /\ ~inObject(c.id, exclude)
    IN  [interior |-> SelectSeq(circles, isInterior),
         exterior |-> SelectSeq(circles, isExterior)]

\* circleMargin lines 67-79: the running margin after the values ms
RECURSIVE marginOver(_, _)
marginOver(ms, margin) ==
    IF ms = <<>> THEN margin
    ELSE marginOver(Tail(ms), IF Head(ms) <= margin THEN Head(ms) ELSE margin)

\* the reading of the margin as a difference of the two minima
circleMarginDifference(current, interior, exterior) ==
    LET inner == marginOver(
                     [i \in 1..Len(interior) |->
                         interior[i].radius - distance(interior[i], current)],
                     interior[1].radius - distance(interior[1], current))
    IN  IF exterior = <<>> THEN inner
        ELSE inner - marginOver(
                         [i \in 1..Len(exterior) |->
                             distance(exterior[i], current) - exterior[i].radius],
                         distance(exterior[1], current) - exterior[1].radius)

\* circleMargin(current, interior, exterior)
circleMargin(current, interior, exterior) ==
    marginOver(
        [i \in 1..(Len(interior) - 1) |->
            interior[i + 1].radius - distance(interior[i + 1], current)]
        \o [i \in 1..Len(exterior) |->
               distance(exterior[i], current) - exterior[i].radius],
        interior[1].radius - distance(interior[1], current))

\* computeTextCentre lines 91-98: five points for each interior circle
RECURSIVE samplePoints(_)
samplePoints(interior) ==
    IF interior = <<>> THEN <<>>
    ELSE LET c == interior[1]
         IN  << [x |-> c.x, y |-> c.y],
                [x |-> c.x + c.radius \div 2, y |-> c.y],
                [x |-> c.x - c.radius \div 2, y |-> c.y],
                [x |-> c.x, y |-> c.y + c.radius \div 2],
                [x |-> c.x, y |-> c.y - c.radius \div 2] >>
             \o samplePoints(Tail(interior))

\* computeTextCentre(interior, exterior): the sampled point of largest
\* margin (the latest of equals) is the initial guess of nelderMead2d, whose
\* simplex has that guess in slot 0 and two empty slots, so that the first
\* pass of the loop that fills the simplex raises (nelderMead.ts line 80).
\* An empty interior raises at once (interior[0].radius, line 64).  Lines
\* 117-156 are not reached.
computeTextCentre(interior, exterior) ==
    IF interior = <<>>
    THEN [error |-> "TypeError", points |-> <<>>, margins |-> <<>>]
    ELSE Let(samplePoints(interior), LAMBDA points :
         Let([i \in 1..Len(points) |->
                 circleMargin(points[i], interior, exterior)],
             LAMBDA margins :
         Let(CHOOSE i \in 1..Len(points) :
                 /\ \A j \in 1..Len(points) : margins[j] <= margins[i]
                 /\ \A j \in (i + 1)..Len(points) : margins[j] < margins[i],
             LAMBDA best :
         Let([items |-> <<points[best].x, points[best].y>>,
              fx |-> -margins[best], id |-> 0],
             LAMBDA guess :
             [error |-> fillVertex("margin",
                                   [error |-> "none", i |-> 0, point |-> <<>>,
                                    simplex |-> << <<guess>>, <<>>, <<>> >>,
                                    initialGuess |-> guess],
                                   destructure(<<>>)).ret.error,
              points |-> points,
              margins |-> margins,
              initial |-> points[best],
              margin |-> margins[best]]))))

MaxSets == 2

\* the dictionaries of circles tried, as lists of entries: distinct
\* identifiers, centers on the x axis with the first at the origin, positive
\* whole radii
Dictionaries ==
    LET entries == [id : Identifiers,
                    x : {Whole(k) : k \in 0..MaxRadius}, y : {0},
                    radius : {Whole(r) : r \in 1..MaxRadius}]
    IN  {cs \in UNION {[1..n -> entries] : n \in 1..MaxSets} :
            /\ cs[1].x = 0
            /\ \A i, j \in 1..Len(cs) : i # j => cs[i].id # cs[j].id}

\* computeTextCentres(circles, areas) with one region of positive size,
\* whose sets are among the identifiers of the circles
InitTextCentres ==
    /\ op = "computeTextCentres"
    /\ pc = "call"
    /\ arg \in [circles : Dictionaries,
                areas : {<<r>> : r \in [sets : RegionSets, size : {F}]}]
    /\ \A k \in 1..Len(arg.areas[1].sets) :
           \E i \in 1..Len(arg.circles) :
               arg.circles[i].id = arg.areas[1].sets[k]
    /\ loc = NoValue
    /\ ret = NoValue

\* lines 188-189
TextCentresEnter ==
    /\ op = "computeTextCentres"
    /\ pc = "call"
    /\ pc' = "areas"
    /\ loc' = [error |-> "none", i |-> 0, ret |-> <<>>, warnings |-> <<>>,
               overlapped |-> getOverlappingCircles(arg.circles)]
    /\ UNCHANGED <<op, arg, ret>>

\* lines 190-213: a pass of the loop over the regions, up to the call of
\* computeTextCentre
TextCentresClasses ==
    /\ op = "computeTextCentres"
    /\ pc = "areas"
    /\ loc.i < Len(arg.areas)
    /\ pc' = "centre"
    /\ \E r \in {classesOf(arg.circles, loc.overlapped,
                           arg.areas[loc.i + 1].sets)} :
          loc' = [error |-> "none", i |-> loc.i, ret |-> loc.ret,
                  warnings |-> loc.warnings, overlapped |-> loc.overlapped,
                  interior |-> r.interior, exterior |-> r.exterior]
    /\ UNCHANGED <<op, arg, ret>>

\* line 214: the call of computeTextCentre, which raises, and with it the
\* call of computeTextCentres
ComputeTextCentre ==
    /\ op = "computeTextCentres"
    /\ pc = "centre"
    /\ \E r \in {computeTextCentre(loc.interior, loc.exterior)} :
          /\ r.error # "none"
          /\ pc' = "raised"
          /\ loc' = [error |-> "none", i |-> loc.i, ret |-> loc.ret,
                     warnings |-> loc.warnings, overlapped |-> loc.overlapped,
                     interior |-> loc.interior, exterior |-> loc.exterior,
                     points |-> r.points, margins |-> r.margins]
          /\ ret' = [error |-> r.error]
    /\ UNCHANGED <<op, arg>>

NextTextCentres == TextCentresEnter \/ TextCentresClasses \/ ComputeTextCentre

SpecTextCentres == InitTextCentres /\ [][NextTextCentres]_vars

\* the call of computeTextCentre made for the region has ended
CentreEnded == op = "computeTextCentres" /\ pc \notin {"call", "areas", "centre"}

\* C14: computeTextCentre returns the point refined by nelderMead2d unchanged
\* if and only if that point lies strictly inside every interior circle and
\* strictly outside every exterior circle; otherwise it takes a fallback.
C14_RefinedPointKept ==
    CentreEnded =>
        /\ ret.error = "none"
        /\ (ret.centre = ret.refined) <=>
               /\ \A k \in 1..Len(loc.interior) :
                      distance(ret.refined, loc.interior[k]) < loc.interior[k].radius
               /\ \A k \in 1..Len(loc.exterior) :
                      distance(ret.refined, loc.exterior[k]) > loc.exterior[k].radius

\* C15: an invalid refined point is resolved in a fixed order of fallbacks
\* (one interior circle, no arcs, one arc, one retry with an empty exterior,
\* the mean of the arcs' p1), after at most two levels of computeTextCentre,
\* and computeTextCentres logs a warning exactly for the regions whose anchor
\* is flagged disjoint and whose size is greater than 0.
C15_FallbackOrder ==
    CentreEnded =>
        /\ ret.error = "none"
        /\ ret.levels <= 2
        /\ ret.fallback \in {"none", "center", "disjoint", "arc center",
                             "retry", "mean"}
        /\ \A i \in 1..Len(arg.areas) :
               (\E w \in 1..Len(loc.warnings) : loc.warnings[w] = arg.areas[i].sets)
                   <=> (ret.centres[i].disjoint /\ arg.areas[i].size > 0)

\* c lies entirely inside d
liesInside(c, d) == distance(c, d) + c.radius <= d.radius + OverlapTolerance

\* the identifiers of a list of circles
idsOf(cs) == {cs[k].id : k \in 1..Len(cs)}

\* C17: for a region, a circle is interior if and only if its identifier is
\* one of the region's sets; a non-member is exterior unless it lies entirely
\* inside an interior circle, and then it is in neither list; interior and
\* exterior are disjoint.
C17_Classes ==
    (op = "computeTextCentres" /\ pc \in {"centre", "raised"}) =>
        /\ \A i \in 1..Len(arg.circles) :
               LET c == arg.circles[i]
                   member == c.id \in Range(arg.areas[loc.i + 1].sets)
               IN  /\ c.id \in idsOf(loc.interior) <=> member
                   /\ c.id \in idsOf(loc.exterior) <=>
                          /\ ~member
                          /\ ~\E k \in 1..Len(loc.interior) :
                                 liesInside(c, loc.interior[k])
        /\ idsOf(loc.interior) \cap idsOf(loc.exterior) = {}

\* the least value of a non-empty set of numbers
LeastOf(S) == CHOOSE m \in S : \A n \in S : m <= n

\* radius - distance for the circles of a list, distance - radius likewise
InnerMargins(p, cs) == {cs[k].radius - distance(cs[k], p) : k \in 1..Len(cs)}
OuterMargins(p, cs) == {distance(cs[k], p) - cs[k].radius : k \in 1..Len(cs)}

\* C18 as stated: the margin of a point is the least of radius - distance
\* over the interior circles minus the least of distance - radius over the
\* exterior circles; the interior value alone when there is no exterior.
C18_MarginIsDifference ==
    (op = "computeTextCentres" /\ pc = "raised" /\ loc.interior # <<>>) =>
        \A i \in 1..Len(loc.points) :
            loc.margins[i] =
                IF loc.exterior = <<>>
                THEN LeastOf(InnerMargins(loc.points[i], loc.interior))
                ELSE LeastOf(InnerMargins(loc.points[i], loc.interior))
                         - LeastOf(OuterMargins(loc.points[i], loc.exterior))

\* C18, amended: the margin of a point is the least of all the values
\* radius - distance of the interior circles and distance - radius of the
\* exterior circles; the interior value alone when there is no exterior.
C18_MarginIsMinimum ==
    (op = "computeTextCentres" /\ pc = "raised" /\ loc.interior # <<>>) =>
        \A i \in 1..Len(loc.points) :
            loc.margins[i] =
                LeastOf(InnerMargins(loc.points[i], loc.interior)
                            \cup OuterMargins(loc.points[i], loc.exterior))

\* a margin was computed that an exterior circle decides: it is below the
\* least interior value
C18_Witness ==
    /\ op = "computeTextCentres" /\ pc = "raised"
    /\ loc.exterior # <<>>
    /\ \E i \in 1..Len(loc.points) :
           loc.margins[i] < LeastOf(InnerMargins(loc.points[i], loc.interior))

----------------------------------------------------------------------------
\* any call of the functions above

Init ==
    \/ InitGeometry
    \/ InitCirclePath
    \/ InitBisect
    \/ InitNelderMead
    \/ InitChart
    \/ InitVector
    \/ InitConjugateGradient
    \/ InitTextCentres

Next ==
    \/ NextGeometry
    \/ NextPath
    \/ NextBisect
    \/ NextNelderMead
    \/ NextChart
    \/ NextVector
    \/ NextConjugateGradient
    \/ NextTextCentres

Spec == Init /\ [][Next]_vars

====
